---- MODULE Spec2Model ----
(***************************************************************************)
(* Risk scoring engine of app.py: the threshold table risk_categories, the *)
(* classifier categorize_risk, the colour map get_risk_color, the scoring  *)
(* loop calculate_risk_parameters and the choice of the best stock.        *)
(*                                                                         *)
(* Numbers.  A Python float is modelled as a record with a kind k in       *)
(* {"fin","inf","ninf","nan"} and, for a finite one, an integer n.  Each   *)
(* parameter's finite values are counted in a unit of that parameter, so   *)
(* that its two thresholds are integers: 0.1 for the ratios of the first   *)
(* six parameters, 1 for the three percentages, 100000 for the two volumes *)
(* and 10^9 for marketCap.  A value is only ever compared with the         *)
(* thresholds of its own parameter.                                        *)
(***************************************************************************)
EXTENDS Integers, Sequences, FiniteSets, TLC

VARIABLES
    df,        \* the data frame read from the Excel file (module global)
    locals,    \* per invocation: the frame of calculate_risk_parameters
    session,   \* per script run: selected_stocks and the names bound at line 134, 158
    prev,      \* per script run: arguments and outputs of the run before this one
    probe      \* one stand-alone call of categorize_risk / get_risk_color

vars == <<df, locals, session, prev, probe>>

\* Longest symbol sequence handed to calculate_risk_parameters by one script run.
MaxLen == 3
\* Longest symbol sequence of each of two concurrently running script runs.
MaxLenConc == 1

-----------------------------------------------------------------------------
(* Python values *)

Fin(x) == [typ |-> "float", k |-> "fin", n |-> x, s |-> ""]
PosInf == [typ |-> "float", k |-> "inf", n |-> 0, s |-> ""]
NegInf == [typ |-> "float", k |-> "ninf", n |-> 0, s |-> ""]
NaN == [typ |-> "float", k |-> "nan", n |-> 0, s |-> ""]
Str(x) == [typ |-> "str", k |-> "", n |-> 0, s |-> x]
None == [typ |-> "none", k |-> "", n |-> 0, s |-> ""]

\* a < b on floats: every comparison with NaN is false
FloatLt(a, b) ==
    IF a.k = "nan" \/ b.k = "nan" THEN FALSE
    ELSE IF a.k = "ninf" THEN b.k # "ninf"
    ELSE IF a.k = "inf" THEN FALSE
    ELSE IF b.k = "inf" THEN TRUE
    ELSE IF b.k = "ninf" THEN FALSE
    ELSE a.n < b.n

\* a <= b on floats
FloatLe(a, b) ==
    IF a.k = "nan" \/ b.k = "nan" THEN FALSE
    ELSE FloatLt(a, b) \/ (a.k = b.k /\ a.n = b.n)

\* float(value): a float is itself; a string is parsed ("nan", "inf", "-inf"
\* and decimal integers are accepted, anything else raises ValueError);
\* None raises TypeError.
ParseFloat(value) ==
    IF value.typ = "float" THEN [ok |-> TRUE, val |-> value, err |-> ""]
    ELSE IF value.typ = "none" THEN [ok |-> FALSE, val |-> NaN, err |-> "TypeError"]
    ELSE IF value.s = "nan" THEN [ok |-> TRUE, val |-> NaN, err |-> ""]
    ELSE IF value.s = "inf" THEN [ok |-> TRUE, val |-> PosInf, err |-> ""]
    ELSE IF value.s = "-inf" THEN [ok |-> TRUE, val |-> NegInf, err |-> ""]
    ELSE IF value.s = "0" THEN [ok |-> TRUE, val |-> Fin(0), err |-> ""]
    ELSE IF value.s = "1" THEN [ok |-> TRUE, val |-> Fin(1), err |-> ""]
    ELSE IF value.s = "2" THEN [ok |-> TRUE, val |-> Fin(2), err |-> ""]
    ELSE IF value.s = "3" THEN [ok |-> TRUE, val |-> Fin(3), err |-> ""]
    ELSE [ok |-> FALSE, val |-> NaN, err |-> "ValueError"]

-----------------------------------------------------------------------------
(* categorize_risk and get_risk_color *)

\* a faulty variant: the first comparison admits the lower threshold
categorize_risk_le(value, thresholds) ==
    LET p == ParseFloat(value) IN
    IF ~p.ok THEN "Data not available"
    ELSE IF FloatLe(p.val, thresholds[1]) THEN "Good"
    ELSE IF FloatLe(thresholds[1], p.val) /\ FloatLe(p.val, thresholds[2]) THEN "Neutral"
    ELSE "Bad"

categorize_risk(value, thresholds) ==
    LET p == ParseFloat(value) IN
    IF ~p.ok THEN "Data not available"
    ELSE IF FloatLt(p.val, thresholds[1]) THEN "Good"
    ELSE IF FloatLe(thresholds[1], p.val) /\ FloatLe(p.val, thresholds[2]) THEN "Neutral"
    ELSE "Bad"

get_risk_color(risk_level) ==
    IF risk_level = "Good" THEN "green"
    ELSE IF risk_level = "Neutral" THEN "yellow"
    ELSE IF risk_level = "Bad" THEN "red"
    ELSE "black"

\* the values and threshold pairs one stand-alone call is tried on
ProbeValues ==
    {Fin(x) : x \in 0..4} \cup {PosInf, NegInf, NaN, None}
    \cup {Str(x) : x \in {"", "N/A", "nan", "inf", "-inf", "2"}}

ProbeBounds == {Fin(x) : x \in 1..3} \cup {PosInf}

ProbeThresholds == {<<lo, hi>> : lo \in {Fin(x) : x \in 1..3}, hi \in ProbeBounds}

NoProbe == [pc |-> "off", value |-> None, thresholds |-> <<Fin(1), Fin(1)>>,
            risk_level |-> "", color |-> ""]

\* one call categorize_risk(value, thresholds), then get_risk_color of its result
Classify ==
    /\ probe.pc = "call"
    /\ probe' = [probe EXCEPT !.pc = "returned",
                    !.risk_level = categorize_risk(probe.value, probe.thresholds),
                    !.color = get_risk_color(categorize_risk(probe.value, probe.thresholds))]
    /\ UNCHANGED <<df, locals, session, prev>>

-----------------------------------------------------------------------------
(* risk_categories: category -> parameter -> (low, high), in insertion order *)

Rule(param, low, high) == [param |-> param, thresholds |-> <<low, high>>]

risk_categories == <<
    [category |-> "Market Risk", parameters |-> <<
        Rule("Volatility", Fin(1), Fin(2)),
        Rule("Beta", Fin(5), Fin(15)),
        Rule("Correlation with ^NSEI", Fin(7), Fin(10)) >>],
    [category |-> "Financial Risk", parameters |-> <<
        Rule("debtToEquity", Fin(5), Fin(15)),
        Rule("currentRatio", Fin(15), Fin(20)),
        Rule("quickRatio", Fin(10), Fin(15)),
        Rule("Profit Margins", Fin(20), Fin(30)),
        Rule("returnOnAssets", Fin(10), Fin(20)),
        Rule("returnOnEquity", Fin(15), Fin(25)) >>],
    [category |-> "Liquidity Risk", parameters |-> <<
        Rule("Volume", Fin(10), PosInf),
        Rule("Average Volume", Fin(5), Fin(10)),
        Rule("marketCap", Fin(10), PosInf) >>] >>

Categories == {risk_categories[i].category : i \in 1..Len(risk_categories)}

\* the (category, parameter, thresholds) triples in the order the nested loops
\* of calculate_risk_parameters visit them
RECURSIVE ParamsFrom(_)
ParamsFrom(ci) ==
    IF ci > Len(risk_categories) THEN <<>>
    ELSE [pj \in 1..Len(risk_categories[ci].parameters) |->
             [category |-> risk_categories[ci].category,
              param |-> risk_categories[ci].parameters[pj].param,
              thresholds |-> risk_categories[ci].parameters[pj].thresholds]]
         \o ParamsFrom(ci + 1)

ParamList == ParamsFrom(1)

NParams == Len(ParamList)

ParamNames == {ParamList[i].param : i \in 1..NParams}

-----------------------------------------------------------------------------
(* df: the rows of the Excel sheet *)

Symbols == {"A", "B", "X"}

\* a cell of a parameter's column, placed relative to the parameter's band;
\* an empty cell is read as NaN, a text cell as a string
CellOf(kind, thresholds) ==
    LET low == thresholds[1].n
        high == thresholds[2] IN
    CASE kind = "below" -> Fin(low - 1)
      [] kind = "atLow" -> Fin(low)
      [] kind = "atHigh" -> IF high.k = "fin" THEN high ELSE Fin(low + 1)
      [] kind = "above" -> IF high.k = "fin" THEN Fin(high.n + 1) ELSE Fin(low + 2)
      [] kind = "empty" -> NaN
      [] kind = "text" -> Str("N/A")

RowKinds == <<
    <<"below", "atLow", "above", "below", "below", "atHigh", "above", "text", "below",
      "below", "atLow", "above">>,
    <<"above", "empty", "below", "above", "text", "above", "atLow", "below", "above",
      "atHigh", "above", "text">>,
    <<"below", "atHigh", "text", "atLow", "below", "above", "below", "atHigh", "above",
      "below", "below", "atLow">>,
    <<"atLow", "atHigh", "atLow", "atHigh", "text", "atLow", "atHigh", "atLow", "text",
      "above", "atHigh", "above">> >>

RowOf(symbol, r) ==
    [Stock_Symbol |-> symbol,
     vals |-> [p \in ParamNames |->
        LET i == CHOOSE j \in 1..NParams : ParamList[j].param = p
        IN CellOf(RowKinds[r][i], ParamList[i].thresholds)]]

\* the sheet may lack parameter columns altogether
ColumnSets == {ParamNames, ParamNames \ {"Beta", "returnOnAssets", "marketCap"}}

\* "A" has a second row further down the sheet; "X" has none
DataFrames ==
    {[columns |-> cols, rows |-> <<RowOf("A", ra), RowOf("B", rb), RowOf("A", rb)>>] :
        cols \in ColumnSets, ra \in 1..Len(RowKinds), rb \in 1..Len(RowKinds)}

ConcDataFrames ==
    {d \in DataFrames : d.columns # ParamNames /\ d.rows[1].vals = RowOf("A", 1).vals
                         /\ d.rows[2].vals = RowOf("B", 2).vals}

\* df[df['Stock Symbol'] == stock_symbol]: the matching rows, in sheet order
MatchingRows(frame, stock_symbol) ==
    SelectSeq(frame.rows, LAMBDA row : row.Stock_Symbol = stock_symbol)

\* stock_info.get(param): the cell, or None when the sheet has no such column
SeriesGet(frame, stock_info, param) ==
    IF param \in frame.columns THEN stock_info[param] ELSE None

-----------------------------------------------------------------------------
(* calculate_risk_parameters: the frame of one invocation and its steps *)

Calls == {1, 2}

NoInfo == [p \in ParamNames |-> None]

ZeroScores == [category \in Categories |-> 0]

\* a frame that is not executing; pc is "idle" before the first call of a
\* script run and "returned" once the call has returned
NoFrame(pc) ==
    [pc |-> pc, stock_symbols |-> <<>>, si |-> 0, stock_symbol |-> "",
     stock_info |-> NoInfo, pi |-> 0, total_stock_score |-> 0,
     results |-> <<>>, stock_scores |-> <<>>, category_scores |-> ZeroScores,
     total_portfolio_score |-> 0, classifier_calls |-> 0]

\* a faulty variant: category_scores is a module global that is not reset, so
\* a call goes on from the scores the run before left
NewFrameStale(stock_symbols) ==
    [NoFrame("for_symbol") EXCEPT !.stock_symbols = stock_symbols, !.si = 1,
        !.category_scores = session[1].category_scores]

\* entry: results = [], stock_scores = {}, category_scores all 0,
\* total_portfolio_score = 0, and the symbol loop at its first element
NewFrame(stock_symbols) ==
    [NoFrame("for_symbol") EXCEPT !.stock_symbols = stock_symbols, !.si = 1]

\* stock_scores[stock_symbol] = score on a dict that keeps insertion order:
\* an existing key keeps its place, a new key goes last
DictSet(stock_scores, stock_symbol, score) ==
    IF \E i \in 1..Len(stock_scores) : stock_scores[i].symbol = stock_symbol
    THEN [i \in 1..Len(stock_scores) |->
            IF stock_scores[i].symbol = stock_symbol
            THEN [symbol |-> stock_symbol, score |-> score]
            ELSE stock_scores[i]]
    ELSE Append(stock_scores, [symbol |-> stock_symbol, score |-> score])

\* a faulty variant: a symbol without a row still gets a stock_scores entry
LookupStockKeepsMissing(L) ==
    LET stock_symbol == L.stock_symbols[L.si]
        stock_info == MatchingRows(df, stock_symbol) IN
    IF stock_info = <<>>
    THEN [L EXCEPT !.si = @ + 1, !.stock_scores = DictSet(@, stock_symbol, 0)]
    ELSE [L EXCEPT !.pc = "for_param", !.stock_symbol = stock_symbol,
                   !.stock_info = stock_info[1].vals,
                   !.total_stock_score = 0, !.pi = 1]

\* the head of the symbol loop: look the symbol up, skip it when it has no
\* row, else take its first row and start the parameter loops
LookupStock(L) ==
    LET stock_symbol == L.stock_symbols[L.si]
        stock_info == MatchingRows(df, stock_symbol) IN
    IF stock_info = <<>>
    THEN [L EXCEPT !.si = @ + 1]
    ELSE [L EXCEPT !.pc = "for_param", !.stock_symbol = stock_symbol,
                   !.stock_info = stock_info[1].vals,
                   !.total_stock_score = 0, !.pi = 1]

Result(stock_symbol, category, param, value, risk_level, color) ==
    [Stock_Symbol |-> stock_symbol, Category |-> category, Parameter |-> param,
     Value |-> value, Risk_Level |-> risk_level, Color |-> color]

\* a faulty variant: a Neutral result counts like a Good one
DeltaNeutralCounts(risk_level) ==
    IF risk_level \in {"Good", "Neutral"} THEN 1
    ELSE IF risk_level = "Bad" THEN 0 - 1 ELSE 0

\* the score delta of a risk level
Delta(risk_level) ==
    IF risk_level = "Good" THEN 1 ELSE IF risk_level = "Bad" THEN 0 - 1 ELSE 0

\* a faulty variant: a Bad result is not subtracted from the stock's own score
ClassifiedBranchSkewed(L, rule, value) ==
    LET risk_level == categorize_risk(value, rule.thresholds) IN
    [L EXCEPT
        !.results = Append(@, Result(L.stock_symbol, rule.category, rule.param,
                                     value, risk_level, get_risk_color(risk_level))),
        !.category_scores[rule.category] = @ + Delta(risk_level),
        !.total_portfolio_score = @ + Delta(risk_level),
        !.total_stock_score = @ + (IF risk_level = "Good" THEN 1 ELSE 0),
        !.classifier_calls = @ + 1,
        !.pi = @ + 1]

\* value is not None: classify it, append the result, move the three scores
ClassifiedBranch(L, rule, value) ==
    LET risk_level == categorize_risk(value, rule.thresholds) IN
    [L EXCEPT
        !.results = Append(@, Result(L.stock_symbol, rule.category, rule.param,
                                     value, risk_level, get_risk_color(risk_level))),
        !.category_scores[rule.category] = @ + Delta(risk_level),
        !.total_portfolio_score = @ + Delta(risk_level),
        !.total_stock_score = @ + Delta(risk_level),
        !.classifier_calls = @ + 1,
        !.pi = @ + 1]

\* a faulty variant: a missing parameter leaves no result behind
MissingBranchNoAppend(L, rule) ==
    [L EXCEPT !.pi = @ + 1]

\* value is None: append a "Data not available" result, no score moves
MissingBranch(L, rule) ==
    [L EXCEPT
        !.results = Append(@, Result(L.stock_symbol, rule.category, rule.param,
                                     Str("Data not available"),
                                     "Data not available", "black")),
        !.pi = @ + 1]

\* the body of the parameter loops for the parameter at pi
EvaluateParameter(L) ==
    LET rule == ParamList[L.pi]
        value == SeriesGet(df, L.stock_info, rule.param) IN
    IF value # None THEN ClassifiedBranch(L, rule, value) ELSE MissingBranch(L, rule)

\* after the last parameter: stock_scores[stock_symbol] = total_stock_score
SaveStockScore(L) ==
    [L EXCEPT !.stock_scores = DictSet(@, L.stock_symbol, L.total_stock_score),
              !.pc = "for_symbol", !.si = @ + 1]

\* return results, category_scores, stock_scores, total_portfolio_score
ReturnValue(L) ==
    [results |-> L.results, category_scores |-> L.category_scores,
     stock_scores |-> L.stock_scores,
     total_portfolio_score |-> L.total_portfolio_score]

AtReturn(L) == L.pc = "for_symbol" /\ L.si > Len(L.stock_symbols)

\* one step of the function body
StepFrame(L) ==
    IF L.pc = "for_symbol" THEN LookupStock(L)
    ELSE IF L.pi <= NParams THEN EvaluateParameter(L)
    ELSE SaveStockScore(L)

\* the whole call, run without interruption
RECURSIVE RunFrame(_)
RunFrame(L) == IF AtReturn(L) THEN ReturnValue(L) ELSE RunFrame(StepFrame(L))

calculate_risk_parameters(stock_symbols) == RunFrame(NewFrame(stock_symbols))

-----------------------------------------------------------------------------
(* the script around the call: selection, call, best stock *)

NoStock == "<none>"

RECURSIVE ArgMaxFrom(_, _, _)
ArgMaxFrom(stock_scores, i, best) ==
    IF i > Len(stock_scores) THEN best
    ELSE ArgMaxFrom(stock_scores, i + 1,
                    IF stock_scores[i].score > stock_scores[best].score THEN i ELSE best)

\* a faulty variant: a later key with an equal score replaces the best one
RECURSIVE ArgMaxLastFrom(_, _, _)
ArgMaxLastFrom(stock_scores, i, best) ==
    IF i > Len(stock_scores) THEN best
    ELSE ArgMaxLastFrom(stock_scores, i + 1,
                    IF stock_scores[i].score >= stock_scores[best].score THEN i ELSE best)

best_stock_last(stock_scores) ==
    IF stock_scores = <<>> THEN NoStock
    ELSE stock_scores[ArgMaxLastFrom(stock_scores, 2, 1)].symbol

\* if stock_scores: best_stock = max(stock_scores, key=stock_scores.get);
\* max keeps the first of the keys with the largest score
best_stock(stock_scores) ==
    IF stock_scores = <<>> THEN NoStock
    ELSE stock_scores[ArgMaxFrom(stock_scores, 2, 1)].symbol

NoSession ==
    [selected_stocks |-> <<>>, done |-> FALSE, results |-> <<>>,
     category_scores |-> ZeroScores, stock_scores |-> <<>>,
     total_portfolio_score |-> 0, best_stock |-> NoStock]

SymbolSeqs(n) == UNION {[1..m -> Symbols] : m \in 0..n}

\* a faulty variant: the accumulators are module globals, so a call works on the
\* frame of the first call
FrameOfShared(c) == locals[1]

\* the local variables a call reads and writes are those of its own frame
FrameOf(c) == locals[c]

\* the script starts with the stocks selected in the multiselect and calls
\* calculate_risk_parameters(selected_stocks)
Start(c, stock_symbols) ==
    /\ session' = [session EXCEPT ![c] = [NoSession EXCEPT !.selected_stocks = stock_symbols]]
    /\ locals' = [locals EXCEPT ![c] = NewFrame(stock_symbols)]

\* a first script run with any selection
Run(c, n) ==
    /\ locals[c].pc = "idle"
    /\ \E stock_symbols \in SymbolSeqs(n) : Start(c, stock_symbols)
    /\ UNCHANGED <<df, prev, probe>>

\* the selection changes and the script runs again
Reselect(c, n) ==
    /\ locals[c].pc = "returned"
    /\ \E stock_symbols \in SymbolSeqs(n) :
          /\ stock_symbols # session[c].selected_stocks
          /\ Start(c, stock_symbols)
    /\ prev' = [prev EXCEPT ![c] = NoSession]
    /\ UNCHANGED <<df, probe>>

\* the script runs again with the selection unchanged
Rerun(c) ==
    /\ locals[c].pc = "returned"
    /\ Start(c, session[c].selected_stocks)
    /\ prev' = [prev EXCEPT ![c] = session[c]]
    /\ UNCHANGED <<df, probe>>

NextSymbol(c) ==
    /\ FrameOf(c).pc = "for_symbol"
    /\ FrameOf(c).si <= Len(FrameOf(c).stock_symbols)
    /\ locals' = [locals EXCEPT ![c] = LookupStock(FrameOf(c))]
    /\ UNCHANGED <<df, session, prev, probe>>

NextParameter(c) ==
    /\ FrameOf(c).pc = "for_param"
    /\ FrameOf(c).pi <= NParams
    /\ locals' = [locals EXCEPT ![c] = EvaluateParameter(FrameOf(c))]
    /\ UNCHANGED <<df, session, prev, probe>>

EndStock(c) ==
    /\ FrameOf(c).pc = "for_param"
    /\ FrameOf(c).pi > NParams
    /\ locals' = [locals EXCEPT ![c] = SaveStockScore(FrameOf(c))]
    /\ UNCHANGED <<df, session, prev, probe>>

\* the call returns; the script binds the four outputs and picks best_stock
Return(c) ==
    /\ AtReturn(FrameOf(c))
    /\ LET out == ReturnValue(FrameOf(c)) IN
       session' = [session EXCEPT ![c] =
          [selected_stocks |-> session[c].selected_stocks, done |-> TRUE,
           results |-> out.results, category_scores |-> out.category_scores,
           stock_scores |-> out.stock_scores,
           total_portfolio_score |-> out.total_portfolio_score,
           best_stock |-> best_stock(out.stock_scores)]]
    /\ locals' = [locals EXCEPT ![c] = NoFrame("returned")]
    /\ UNCHANGED <<df, prev, probe>>

-----------------------------------------------------------------------------
(* specifications *)

Idle ==
    /\ locals = [c \in Calls |-> NoFrame("idle")]
    /\ session = [c \in Calls |-> NoSession]
    /\ prev = [c \in Calls |-> NoSession]

\* one script run after another
Init == df \in DataFrames /\ Idle /\ probe = NoProbe

Next ==
    \/ Run(1, MaxLen)
    \/ Reselect(1, MaxLen)
    \/ Rerun(1)
    \/ NextSymbol(1)
    \/ NextParameter(1)
    \/ EndStock(1)
    \/ Return(1)

Spec == Init /\ [][Next]_vars

\* two script runs whose calls interleave step by step
InitConc == df \in ConcDataFrames /\ Idle /\ probe = NoProbe

NextConc ==
    \E c \in Calls :
        \/ Run(c, MaxLenConc)
        \/ NextSymbol(c)
        \/ NextParameter(c)
        \/ EndStock(c)
        \/ Return(c)

SpecConc == InitConc /\ [][NextConc]_vars

\* stand-alone calls of the classifier
InitClassify ==
    /\ df \in ConcDataFrames
    /\ Idle
    /\ probe \in [pc : {"call"}, value : ProbeValues, thresholds : ProbeThresholds,
                  risk_level : {""}, color : {""}]

SpecClassify == InitClassify /\ [][Classify]_vars

-----------------------------------------------------------------------------
(* helpers of the properties *)

Running(L) == L.pc \in {"for_symbol", "for_param"}

\* the symbol has a row in the sheet
Resolved(symbol) == \E i \in 1..Len(df.rows) : df.rows[i].Stock_Symbol = symbol

ResolvedOnly(stock_symbols) == SelectSeq(stock_symbols, Resolved)

\* Good results minus Bad results among results[i], i in I
GoodMinusBad(results, I) ==
    Cardinality({i \in I : results[i].Risk_Level = "Good"})
    - Cardinality({i \in I : results[i].Risk_Level = "Bad"})

RECURSIVE SumScores(_)
SumScores(stock_scores) ==
    IF stock_scores = <<>> THEN 0
    ELSE stock_scores[1].score + SumScores(Tail(stock_scores))

RECURSIVE SumOver(_, _)
SumOver(f, S) ==
    IF S = {} THEN 0
    ELSE LET x == CHOOSE y \in S : TRUE IN f[x] + SumOver(f, S \ {x})

HasScore(stock_scores, symbol) ==
    \E i \in 1..Len(stock_scores) : stock_scores[i].symbol = symbol

ScoreOf(stock_scores, symbol) ==
    stock_scores[CHOOSE i \in 1..Len(stock_scores) : stock_scores[i].symbol = symbol].score

\* the sum, over the resolved entries of the sequence, of that symbol's score
RECURSIVE SumPerEntry(_, _)
SumPerEntry(stock_symbols, stock_scores) ==
    IF stock_symbols = <<>> THEN 0
    ELSE (IF Resolved(Head(stock_symbols))
          THEN ScoreOf(stock_scores, Head(stock_symbols)) ELSE 0)
         + SumPerEntry(Tail(stock_symbols), stock_scores)

NoRepeat(stock_symbols) ==
    \A i, j \in 1..Len(stock_symbols) :
        stock_symbols[i] = stock_symbols[j] => i = j

FirstPos(stock_symbols, symbol) ==
    CHOOSE i \in 1..Len(stock_symbols) :
        /\ stock_symbols[i] = symbol
        /\ \A j \in 1..(i - 1) : stock_symbols[j] # symbol

Outputs(sess) ==
    [results |-> sess.results, category_scores |-> sess.category_scores,
     stock_scores |-> sess.stock_scores,
     total_portfolio_score |-> sess.total_portfolio_score]

\* the cell a result was computed from: the symbol's first row
CellOfResult(r) ==
    LET i == CHOOSE j \in 1..Len(df.rows) :
                /\ df.rows[j].Stock_Symbol = r.Stock_Symbol
                /\ \A k \in 1..(j - 1) : df.rows[k].Stock_Symbol # r.Stock_Symbol
    IN df.rows[i].vals[r.Parameter]

\* order of the non-NaN floats, by an integer rank
Rank(x) == IF x.k = "inf" THEN 1000000 ELSE IF x.k = "ninf" THEN 0 - 1000000 ELSE x.n

IsFiniteNumber(value) == ParseFloat(value).ok /\ ParseFloat(value).val.k = "fin"

-----------------------------------------------------------------------------
(* C1 *)

\* C1 (as stated): after every run, whatever the symbol sequence, the
\* portfolio score equals the sum of the stock_scores values and the sum of
\* the category_scores values.
C1_AsStated ==
    \A c \in Calls : session[c].done =>
        /\ session[c].total_portfolio_score = SumScores(session[c].stock_scores)
        /\ SumOver(session[c].category_scores, Categories)
              = session[c].total_portfolio_score

\* C1 (amended): after every run the category_scores sum to the portfolio
\* score, and the portfolio score is the sum, over the resolved entries of the
\* symbol sequence (repeats counted), of that symbol's stock_scores value; so
\* it equals the sum of the stock_scores values when no resolved symbol is
\* repeated.
C1_Amended ==
    \A c \in Calls : session[c].done =>
        /\ SumOver(session[c].category_scores, Categories)
              = session[c].total_portfolio_score
        /\ session[c].total_portfolio_score
              = SumPerEntry(session[c].selected_stocks, session[c].stock_scores)
        /\ NoRepeat(ResolvedOnly(session[c].selected_stocks)) =>
              session[c].total_portfolio_score = SumScores(session[c].stock_scores)

C1_Witness ==
    \E c \in Calls :
        /\ session[c].done
        /\ NoRepeat(session[c].selected_stocks)
        /\ \E i \in 1..Len(session[c].selected_stocks) :
              ~Resolved(session[c].selected_stocks[i])
        /\ Len(session[c].stock_scores) = 2
        /\ session[c].total_portfolio_score # 0
        /\ \A i \in 1..2 : session[c].stock_scores[i].score # 0

-----------------------------------------------------------------------------
(* C2 *)

\* C2: categorize_risk returns "Data not available" for every value that is
\* not parsed as a finite number (None, a non-numeric string, and what
\* coerces to NaN or an infinity), whatever the thresholds.
C2_AsStated ==
    (probe.pc = "returned" /\ ~IsFiniteNumber(probe.value))
        => probe.risk_level = "Data not available"

-----------------------------------------------------------------------------
(* C3 *)

\* C3: for a numeric value v and thresholds low <= high the result is one of
\* Good, Neutral, Bad, with Good iff v < low, Neutral iff low <= v <= high,
\* Bad iff v > high; v = low and v = high are Neutral.
C3_Theorem ==
    LET p == ParseFloat(probe.value)
        v == Rank(p.val)
        low == Rank(probe.thresholds[1])
        high == Rank(probe.thresholds[2]) IN
    (probe.pc = "returned" /\ p.ok /\ p.val.k # "nan" /\ low <= high) =>
        /\ probe.risk_level \in {"Good", "Neutral", "Bad"}
        /\ probe.risk_level = "Good" <=> v < low
        /\ probe.risk_level = "Neutral" <=> (low <= v /\ v <= high)
        /\ probe.risk_level = "Bad" <=> v > high
        /\ (v = low \/ v = high) => probe.risk_level = "Neutral"

C3_Witness ==
    /\ probe.pc = "returned"
    /\ probe.value = Fin(2)
    /\ probe.thresholds = <<Fin(2), Fin(2)>>
    /\ probe.risk_level = "Neutral"

-----------------------------------------------------------------------------
(* C4 *)

\* C4: a Good result adds 1 to its category's score, to the portfolio score
\* and to the current stock's score, a Bad result subtracts 1 from the three,
\* any other result changes none; so at every point of a run each of the
\* three scores is the number of Good minus the number of Bad results among
\* the results it covers (the category's, all, the current stock's).
C4_Theorem ==
    \A c \in Calls :
        /\ Running(locals[c]) =>
            LET L == locals[c]
                n == Len(L.results) IN
            /\ \A cat \in Categories :
                  L.category_scores[cat]
                    = GoodMinusBad(L.results, {i \in 1..n : L.results[i].Category = cat})
            /\ L.total_portfolio_score = GoodMinusBad(L.results, 1..n)
            /\ L.pc = "for_param" =>
                  L.total_stock_score = GoodMinusBad(L.results, (n - L.pi + 2)..n)
        /\ session[c].done =>
            LET S == session[c]
                n == Len(S.results) IN
            /\ \A cat \in Categories :
                  S.category_scores[cat]
                    = GoodMinusBad(S.results, {i \in 1..n : S.results[i].Category = cat})
            /\ S.total_portfolio_score = GoodMinusBad(S.results, 1..n)

C4_Witness ==
    \E c \in Calls :
        /\ session[c].done
        /\ \A lvl \in {"Good", "Neutral", "Bad", "Data not available"} :
              \E i \in 1..Len(session[c].results) : session[c].results[i].Risk_Level = lvl
        /\ \E cat \in Categories : session[c].category_scores[cat] > 0
        /\ \E cat \in Categories : session[c].category_scores[cat] < 0

-----------------------------------------------------------------------------
(* C5 *)

\* C5: a symbol without a row is skipped: it leaves no result and no
\* stock_scores entry, and the run returns exactly what it returns for the
\* sequence without the missing symbols.
C5_Theorem ==
    \A c \in Calls : session[c].done =>
        /\ \A i \in 1..Len(session[c].results) :
              Resolved(session[c].results[i].Stock_Symbol)
        /\ \A i \in 1..Len(session[c].stock_scores) :
              Resolved(session[c].stock_scores[i].symbol)
        /\ Outputs(session[c])
              = calculate_risk_parameters(ResolvedOnly(session[c].selected_stocks))

C5_Witness ==
    \E c \in Calls :
        /\ session[c].done
        /\ Len(session[c].selected_stocks) = 3
        /\ ~Resolved(session[c].selected_stocks[1])
        /\ Resolved(session[c].selected_stocks[2])
        /\ ~Resolved(session[c].selected_stocks[3])
        /\ Len(session[c].results) = NParams
        /\ session[c].total_portfolio_score # 0

-----------------------------------------------------------------------------
(* C6 *)

\* C6: a parameter whose column is absent yields one result with risk level
\* and value "Data not available" and colour black, without a classifier
\* call; a cell that is present but is not a finite number goes through the
\* classifier, also yields "Data not available" (so no score moves) and keeps
\* the raw value.
C6_AsStated ==
    \A c \in Calls : Running(locals[c]) =>
        LET L == locals[c] IN
        /\ \A i \in 1..Len(L.results) :
              LET r == L.results[i] IN
              IF r.Parameter \notin df.columns
              THEN /\ r.Risk_Level = "Data not available"
                   /\ r.Color = "black"
                   /\ r.Value = Str("Data not available")
              ELSE ~IsFiniteNumber(CellOfResult(r)) =>
                   /\ r.Risk_Level = "Data not available"
                   /\ r.Value = CellOfResult(r)
        /\ L.classifier_calls
              = Cardinality({i \in 1..Len(L.results) : L.results[i].Parameter \in df.columns})

-----------------------------------------------------------------------------
(* C7 *)

\* C7: the best stock has the largest of the stock_scores values; among the
\* symbols with the largest score it is the one scored first in the sequence;
\* with no resolved symbol there is no best stock.
C7_Theorem ==
    \A c \in Calls : session[c].done =>
        LET S == session[c]
            sel == ResolvedOnly(S.selected_stocks) IN
        IF sel = <<>>
        THEN S.stock_scores = <<>> /\ S.best_stock = NoStock
        ELSE /\ HasScore(S.stock_scores, S.best_stock)
             /\ \A i \in 1..Len(S.stock_scores) :
                   S.stock_scores[i].score <= ScoreOf(S.stock_scores, S.best_stock)
             /\ \A i \in 1..Len(sel) :
                   ScoreOf(S.stock_scores, sel[i]) = ScoreOf(S.stock_scores, S.best_stock)
                      => FirstPos(sel, S.best_stock) <= i

C7_Witness ==
    \E c \in Calls :
        /\ session[c].done
        /\ session[c].selected_stocks = <<"X", "B", "A">>
        /\ Len(session[c].stock_scores) = 2
        /\ session[c].stock_scores[1].score = session[c].stock_scores[2].score
        /\ df.rows[1].vals # df.rows[2].vals
        /\ session[c].best_stock = "B"

-----------------------------------------------------------------------------
(* C8 *)

\* every call starts from empty results and stock_scores and zero scores, and
\* a script run with the selection of the run before returns what that run
\* returned
C8_Fresh ==
    \A c \in Calls :
        /\ (locals[c].pc = "for_symbol" /\ locals[c].si = 1) =>
              /\ locals[c].results = <<>>
              /\ locals[c].stock_scores = <<>>
              /\ locals[c].category_scores = [cat \in Categories |-> 0]
              /\ locals[c].total_portfolio_score = 0
        /\ (session[c].done /\ prev[c].done) =>
              /\ prev[c].selected_stocks = session[c].selected_stocks
              /\ Outputs(prev[c]) = Outputs(session[c])

\* C8: no state is kept between invocations: every call starts from zero
\* scores and empty results, two calls in sequence with the same symbols
\* return the same outputs, and a run leaves the record source unchanged.
C8_Theorem == [](C8_Fresh) /\ [][df' = df]_vars

C8_Witness ==
    \E c \in Calls :
        /\ session[c].done
        /\ prev[c].done
        /\ Len(session[c].results) = 3 * NParams
        /\ session[c].total_portfolio_score # 0
        /\ ~NoRepeat(session[c].selected_stocks)

-----------------------------------------------------------------------------
(* C9 *)

\* C9: when the steps of two invocations interleave, each invocation, from
\* wherever it stands, goes on to return what it returns when run alone on
\* its symbols, and has returned exactly that once it is done.
C9_Theorem ==
    \A c \in Calls :
        /\ Running(locals[c]) =>
              /\ locals[c].stock_symbols = session[c].selected_stocks
              /\ RunFrame(locals[c])
                    = calculate_risk_parameters(session[c].selected_stocks)
        /\ session[c].done =>
              Outputs(session[c]) = calculate_risk_parameters(session[c].selected_stocks)

C9_Witness ==
    /\ locals[1].pc = "for_param" /\ locals[2].pc = "for_param"
    /\ locals[1].stock_symbol = "A" /\ locals[2].stock_symbol = "A"
    /\ locals[1].pi = 5 /\ locals[2].pi = 6
    /\ locals[1].stock_symbols = <<"A">>
    /\ locals[2].stock_symbols = <<"A">>
    /\ locals[1].total_portfolio_score # locals[2].total_portfolio_score

-----------------------------------------------------------------------------
(* C10 *)

\* the results so far are whole blocks, one per resolved symbol in sequence
\* order, each in the order of the rule table, and the block under way
C10_Blocks(results, stock_symbols) ==
    LET sel == ResolvedOnly(stock_symbols) IN
    \A i \in 1..Len(results) :
        LET b == ((i - 1) \div NParams) + 1
            j == ((i - 1) % NParams) + 1 IN
        /\ b <= Len(sel)
        /\ results[i].Stock_Symbol = sel[b]
        /\ results[i].Category = ParamList[j].category
        /\ results[i].Parameter = ParamList[j].param

C10_Shape ==
    /\ NParams = 12
    /\ \A j \in 1..NParams :
          ParamList[j].category =
             (IF j <= 3 THEN "Market Risk" ELSE IF j <= 9 THEN "Financial Risk"
              ELSE "Liquidity Risk")
    /\ \A c \in Calls :
          /\ Running(locals[c]) =>
                /\ C10_Blocks(locals[c].results, locals[c].stock_symbols)
                /\ locals[c].pc = "for_symbol" =>
                      Len(locals[c].results)
                        = 12 * Len(ResolvedOnly(SubSeq(locals[c].stock_symbols, 1,
                                                       locals[c].si - 1)))
          /\ session[c].done =>
                /\ C10_Blocks(session[c].results, session[c].selected_stocks)
                /\ Len(session[c].results)
                      = 12 * Len(ResolvedOnly(session[c].selected_stocks))

\* within a call a step only appends to results, one result at most, and the
\* list returned is the list built
C10_AppendOnly ==
    \A c \in Calls :
        /\ (Running(locals[c]) /\ Running(locals'[c])) =>
              \/ locals'[c].results = locals[c].results
              \/ /\ Len(locals'[c].results) = Len(locals[c].results) + 1
                 /\ SubSeq(locals'[c].results, 1, Len(locals[c].results))
                       = locals[c].results
        /\ (Running(locals[c]) /\ ~Running(locals'[c])) =>
              session'[c].results = locals[c].results

\* C10: one result per (resolved stock, parameter) pair, appended and never
\* changed: results is one block of 12 per resolved entry of the sequence, in
\* sequence order and rule-table order, so its length is 12 times the number
\* of resolved entries (0 for the empty sequence).
C10_Theorem == [](C10_Shape) /\ [][C10_AppendOnly]_vars

C10_Witness ==
    \E c \in Calls :
        /\ session[c].done
        /\ session[c].selected_stocks = <<"B", "X", "B">>
        /\ Len(session[c].results) = 24
        /\ df.columns # ParamNames

====
